---- MODULE Spec2Model ----
(***************************************************************************)
(* Verification registry and command dispatch of the veribot Telegram bot  *)
(* (src/main.py): the identity normalizer format_username, the three store *)
(* helpers over the verified_users table, the authorization gate and the   *)
(* four command handlers run by the bot's worker threads.                  *)
(*                                                                         *)
(* A Python string is a sequence of one-character strings.                 *)
(***************************************************************************)
EXTENDS Integers, Sequences, FiniteSets, TLC

VARIABLES
    store,      \* rows of table verified_users: records [username, service]
    worker,     \* per worker thread of the bot: the handler it is running
    sent,       \* replies handed to bot.reply_to, in order
    logged,     \* logger.error records: [id, what]
    next_id,    \* message_id of the next inbound message
    update,     \* command and sender of the message dispatched last
    prev,       \* store call before the last one (store-level specification)
    last,       \* the last store call and what it returned
    nraw,       \* normalizer specification: the raw input
    nout        \* normalizer specification: outputs of successive applications

vars == <<store, worker, sent, logged, next_id, update, prev, last, nraw, nout>>

\* ------------------------------------------------------------------ bounds
MaxLen == 3          \* longest raw string given to format_username
MaxMsgs == 3         \* inbound messages in one run of the dispatcher

\* ----------------------------------------------------------------- strings
Chars == {"a", "A", "_", "-", "@", " "}

Str(n) == UNION {[1..k -> Chars] : k \in 0..n}

\* str.lower()
lower(s) == [i \in 1..Len(s) |-> IF s[i] = "A" THEN "a" ELSE s[i]]

RECURSIVE lstrip(_)
lstrip(s) == IF s = <<>> THEN s
             ELSE IF Head(s) = " " THEN lstrip(Tail(s)) ELSE s

RECURSIVE rstrip(_)
rstrip(s) == IF s = <<>> THEN s
             ELSE IF s[Len(s)] = " " THEN rstrip(SubSeq(s, 1, Len(s) - 1)) ELSE s

\* str.strip()
strip(s) == rstrip(lstrip(s))

\* str.replace(old, new): every occurrence of the character old
RECURSIVE replace(_, _, _)
replace(s, old, new) ==
    IF s = <<>> THEN <<>>
    ELSE (IF Head(s) = old THEN new ELSE <<Head(s)>>) \o replace(Tail(s), old, new)

format_username(username) ==
    <<"@">> \o replace(strip(lower(username)), "@", <<>>)

\* The algorithm of the specification's section 4.1, for comparison:
\* lowercase, trim, strip one leading '@' if present, prefix one '@'.
normalize_ref(raw) ==
    LET t == strip(lower(raw))
        u == IF t # <<>> /\ Head(t) = "@" THEN Tail(t) ELSE t
    IN  <<"@">> \o u

\* ------------------------------------------------------------------- store
None == {}

\* service texts: the rest of an /add message, kept as written
Services == { <<"A", "a">>, <<"a", "-", "A">> }

\* the four alternatives of the WHERE clause of get_verified_user
LookupForms(username) ==
    LET f == format_username(username)
    IN  {f, lower(f), replace(f, "_", <<>>), replace(f, "_", <<"-">>)}

\* rows the SELECT of get_verified_user matches; fetchone() returns one of them
\* (the query has no ORDER BY) or None when there is none
LookupMatches(rows, username) ==
    {r \in rows : r.username \in LookupForms(username)}

\* mutant of save_verified_user: ON CONFLICT DO NOTHING
save_keep_old(rows, username, service) ==
    LET f == format_username(username)
    IN  IF \E r \in rows : r.username = f THEN rows
        ELSE rows \cup {[username |-> f, service |-> service]}

\* mutant of save_verified_user: a plain INSERT, no conflict clause
save_insert_only(rows, username, service) ==
    rows \cup {[username |-> format_username(username), service |-> service]}

\* mutant of save_verified_user: writes the underscore-stripped variant
save_stripped(rows, username, service) ==
    LET f == replace(format_username(username), "_", <<>>)
    IN  {r \in rows : r.username # f} \cup {[username |-> f, service |-> service]}

\* INSERT ... ON CONFLICT (username) DO UPDATE SET service = EXCLUDED.service
save_verified_user(rows, username, service) ==
    LET f == format_username(username)
    IN  {r \in rows : r.username # f} \cup {[username |-> f, service |-> service]}

\* mutant of remove_verified_user: deletes nothing
remove_nothing(rows, username) == rows

\* DELETE FROM verified_users WHERE username = %s
remove_verified_user(rows, username) ==
    {r \in rows : r.username # format_username(username)}

\* ---------------------------------------------------------- initial values
OWNER_ID == 1

NumThreads == 2

Workers == 1..NumThreads

NoMsg == [id |-> 0, cmd |-> "none", from_user |-> 0, argv |-> <<>>, reply_to |-> <<>>]

Idle == [pc |-> "idle", msg |-> NoMsg, user_data |-> None]

NoCall == [op |-> "none", arg |-> <<>>, service |-> <<>>, ok |-> TRUE, result |-> None]

InitCommon ==
    /\ store = {}
    /\ worker = [w \in Workers |-> Idle]
    /\ sent = <<>>
    /\ logged = {}
    /\ next_id = 1
    /\ update = [id |-> 0, cmd |-> "none", from_user |-> 0]
    /\ prev = NoCall
    /\ last = NoCall
    /\ nout = <<>>

\* ------------------------------------------- the normalizer on its own
InitNorm == InitCommon /\ nraw \in Str(MaxLen)

\* format_username applied to the raw input, then to its own output
ApplyFormat ==
    /\ Len(nout) < 2
    /\ nout' = Append(nout, format_username(IF nout = <<>> THEN nraw ELSE nout[Len(nout)]))
    /\ UNCHANGED <<store, worker, sent, logged, next_id, update, prev, last, nraw>>

NextNorm == ApplyFormat

SpecNorm == InitNorm /\ [][NextNorm]_vars

\* ------------------------------------------------ the store helpers called
\* directly, one call after another, each with its own connection; ok = FALSE
\* is psycopg2 raising inside the helper's try block (caught and logged there)
Spellings ==
    { <<"a", "a">>, <<"@", "a", "a">>, <<"A", "a">>, <<" ", "a", "a", " ">>,
      <<"a", "_", "a">>, <<"@", "A", "_", "a">>, <<"a", "-", "a">> }

InitStore == InitCommon /\ nraw = <<>>

CallSave(username, service, ok) ==
    /\ store' = IF ok THEN save_verified_user(store, username, service) ELSE store
    /\ prev' = last
    /\ last' = [op |-> "upsert", arg |-> username, service |-> service,
                ok |-> ok, result |-> None]
    /\ UNCHANGED <<worker, sent, logged, next_id, update, nraw, nout>>

CallGet(username, ok) ==
    /\ \E res \in (IF ok /\ LookupMatches(store, username) # {}
                   THEN {{r} : r \in LookupMatches(store, username)}
                   ELSE {None}) :
          last' = [op |-> "lookup", arg |-> username, service |-> <<>>,
                   ok |-> ok, result |-> res]
    /\ prev' = last
    /\ UNCHANGED <<store, worker, sent, logged, next_id, update, nraw, nout>>

\* result records the rows the DELETE statement affected
CallRemove(username, ok) ==
    /\ store' = IF ok THEN remove_verified_user(store, username) ELSE store
    /\ prev' = last
    /\ last' = [op |-> "delete", arg |-> username, service |-> <<>>, ok |-> ok,
                result |-> IF ok THEN store \ remove_verified_user(store, username)
                           ELSE None]
    /\ UNCHANGED <<worker, sent, logged, next_id, update, nraw, nout>>

NextStore ==
    \/ \E u \in Spellings, s \in Services, ok \in BOOLEAN : CallSave(u, s, ok)
    \/ \E u \in Spellings, ok \in BOOLEAN : CallGet(u, ok)
    \/ \E u \in Spellings, ok \in BOOLEAN : CallRemove(u, ok)

SpecStore == InitStore /\ [][NextStore]_vars

\* ------------------------------------------------------------ dispatcher
\* bot = telebot.TeleBot(TOKEN, threaded=True): the polling loop hands every
\* inbound message to a pool of NumThreads worker threads, and each handler
\* runs on the worker that took it, so handlers of different messages overlap.
\* A handler's steps are its store calls (one SQL statement on a connection of
\* its own, hence atomic), each taken together with the handler code up to the
\* next store call or the return; a handler with one store call is one step.
authorized_users == {OWNER_ID}

Actors == {OWNER_ID, OWNER_ID + 1}

\* identity tokens of message.text.split(): no whitespace inside
Handles == { <<"a", "a">>, <<"@", "A", "a">>, <<"a", "_", "a">> }

\* message.text.split() without the command token: the identity, then (for
\* /add, split(maxsplit=2)) the rest of the text as the service
Argvs == {<<>>} \cup {<<h>> : h \in Handles}
              \cup {<<h, s>> : h \in Handles, s \in Services}

\* reply_to is message.reply_to_message.from_user.username, <<>> when there
\* is no replied-to message or it has no username
Messages ==
    [id : {0}, cmd : {"ping"}, from_user : Actors, argv : {<<>>}, reply_to : {<<>>}]
    \cup [id : {0}, cmd : {"check"}, from_user : Actors, argv : {<<>>},
          reply_to : {<<>>} \cup Handles]
    \cup [id : {0}, cmd : {"check"}, from_user : Actors,
          argv : {<<h>> : h \in Handles}, reply_to : {<<>>}]
    \cup [id : {0}, cmd : {"add", "remove"}, from_user : Actors, argv : Argvs,
          reply_to : {<<>>}]

\* str.upper()
upper(s) == [i \in 1..Len(s) |-> IF s[i] = "a" THEN "A" ELSE s[i]]

\* the characters of special_chars that the alphabet has
special_chars == {"_", "-"}

RECURSIVE escape_markdown(_)
escape_markdown(text) ==
    IF text = <<>> THEN <<>>
    ELSE (IF Head(text) \in special_chars THEN <<"\\", Head(text)>> ELSE <<Head(text)>>)
         \o escape_markdown(Tail(text))

\* mutant of is_authorized: everybody is authorized
is_authorized_all(user) == TRUE

is_authorized(user) == user \in authorized_users

Reply(m, kind, name, service) ==
    [to |-> m.id, kind |-> kind, name |-> name, service |-> service]

\* what get_verified_user can return: a matching row, or None when nothing
\* matches or the query raised (then logged as "Database error")
GetResults(username, ok) ==
    IF ok /\ LookupMatches(store, username) # {}
    THEN {{r} : r \in LookupMatches(store, username)}
    ELSE {None}

Log(m, ok, what) == IF ok THEN logged ELSE logged \cup {[id |-> m.id, what |-> what]}

InitDispatch == InitCommon /\ nraw = <<>>

\* mutant of Dispatched: a worker takes a message while its handler still runs
Dispatched_busy(w) == next_id <= MaxMsgs

\* the polling loop has the next update and worker w is free to run its handler
Dispatched(w) == next_id <= MaxMsgs /\ worker[w].pc = "idle"

\* the polling loop moves on to the next update
Taken(m) ==
    /\ next_id' = next_id + 1
    /\ update' = [id |-> m.id, cmd |-> m.cmd, from_user |-> m.from_user]

ping_command(w, msg) ==
    LET m == [msg EXCEPT !.id = next_id] IN
    /\ Dispatched(w) /\ m.cmd = "ping"
    /\ sent' = Append(sent, Reply(m, "pong", <<>>, <<>>))
    /\ Taken(m)
    /\ UNCHANGED <<store, worker, logged, prev, last, nraw, nout>>

check_verification(w, msg, ok) ==
    LET m == [msg EXCEPT !.id = next_id]
        username == IF Len(m.argv) >= 1 THEN strip(m.argv[1]) ELSE m.reply_to
        display_name == upper(format_username(username))
    IN
    /\ Dispatched(w) /\ m.cmd = "check"
    /\ IF Len(m.argv) = 0 /\ m.reply_to = <<>>
       THEN /\ sent' = Append(sent, Reply(m, "usage_check", <<>>, <<>>))
            /\ logged' = logged
       ELSE /\ \E user_data \in GetResults(username, ok) :
                 sent' = Append(sent,
                    IF user_data # None
                    THEN Reply(m, "verified", escape_markdown(display_name),
                               escape_markdown(upper((CHOOSE r \in user_data : TRUE).service)))
                    ELSE Reply(m, "not_verified", escape_markdown(display_name), <<>>))
            /\ logged' = Log(m, ok, "Database error")
    /\ Taken(m)
    /\ UNCHANGED <<store, worker, prev, last, nraw, nout>>

add_verified(w, msg, ok) ==
    LET m == [msg EXCEPT !.id = next_id] IN
    /\ Dispatched(w) /\ m.cmd = "add"
    /\ IF ~is_authorized(m.from_user)
       THEN /\ sent' = Append(sent, Reply(m, "not_authorized", <<>>, <<>>))
            /\ UNCHANGED <<store, logged>>
       ELSE IF Len(m.argv) # 2
       THEN /\ sent' = Append(sent, Reply(m, "usage_add", <<>>, <<>>))
            /\ UNCHANGED <<store, logged>>
       ELSE LET username == format_username(m.argv[1])
                service == m.argv[2]
            IN  /\ store' = IF ok THEN save_verified_user(store, username, service)
                            ELSE store
                /\ logged' = Log(m, ok, "Error saving user")
                /\ sent' = Append(sent, Reply(m, "added", username, service))
    /\ Taken(m)
    /\ UNCHANGED <<worker, prev, last, nraw, nout>>

\* remove_verified up to and including its get_verified_user call; when a row
\* is found the handler goes on, on its worker, to remove_verified_delete
remove_verified(w, msg, ok) ==
    LET m == [msg EXCEPT !.id = next_id] IN
    /\ Dispatched(w) /\ m.cmd = "remove"
    /\ IF ~is_authorized(m.from_user)
       THEN /\ sent' = Append(sent, Reply(m, "not_authorized", <<>>, <<>>))
            /\ UNCHANGED <<worker, logged>>
       ELSE IF Len(m.argv) # 1
       THEN /\ sent' = Append(sent, Reply(m, "usage_remove", <<>>, <<>>))
            /\ UNCHANGED <<worker, logged>>
       ELSE /\ \E user_data \in GetResults(m.argv[1], ok) :
                 IF user_data # None
                 THEN /\ worker' = [worker EXCEPT ![w] =
                                      [pc |-> "delete", msg |-> m, user_data |-> user_data]]
                      /\ sent' = sent
                 ELSE /\ sent' = Append(sent, Reply(m, "not_a_verified_user", m.argv[1], <<>>))
                      /\ worker' = worker
            /\ logged' = Log(m, ok, "Database error")
    /\ Taken(m)
    /\ UNCHANGED <<store, prev, last, nraw, nout>>

\* remove_verified from its remove_verified_user call to the reply
remove_verified_delete(w, ok) ==
    LET m == worker[w].msg IN
    /\ worker[w].pc = "delete"
    /\ store' = IF ok THEN remove_verified_user(store, m.argv[1]) ELSE store
    /\ logged' = Log(m, ok, "Error removing user")
    /\ sent' = Append(sent, Reply(m, "removed", m.argv[1], <<>>))
    /\ worker' = [worker EXCEPT ![w] = Idle]
    /\ UNCHANGED <<next_id, update, prev, last, nraw, nout>>

Next ==
    \/ \E w \in Workers, m \in Messages : ping_command(w, m)
    \/ \E w \in Workers, m \in Messages, ok \in BOOLEAN : check_verification(w, m, ok)
    \/ \E w \in Workers, m \in Messages, ok \in BOOLEAN : add_verified(w, m, ok)
    \/ \E w \in Workers, m \in Messages, ok \in BOOLEAN : remove_verified(w, m, ok)
    \/ \E w \in Workers, ok \in BOOLEAN : remove_verified_delete(w, ok)

Spec == InitDispatch /\ [][Next]_vars

\* ================================================================ claims
\* ------------------------------------------------ normalizer (SpecNorm)

\* C7: normalize(raw) equals the reference algorithm for every input string:
\* lowercase, trim, strip exactly one leading '@' (other '@' stay), prefix '@'.
C7_MatchesReference ==
    Len(nout) >= 1 => nout[1] = normalize_ref(nraw)

IsHandle(s) == \A i \in 1..Len(s) : s[i] \notin {"@", " "}

\* C8: normalize(normalize(x)) = normalize(x) for every input x, and the case,
\* surrounding-whitespace and '@'-prefix variants of a handle normalize alike.
C8_Idempotent ==
    /\ Len(nout) = 2 => nout[2] = nout[1]
    /\ (Len(nout) >= 1 /\ IsHandle(nraw)) =>
          /\ format_username(<<"@">> \o nraw) = nout[1]
          /\ format_username(<<" ", "@">> \o nraw \o <<" ">>) = nout[1]
          /\ format_username(lower(nraw)) = nout[1]

\* ---------------------------------------------- store helpers (SpecStore)
SameHandle(v1, v2) == normalize_ref(v1) = normalize_ref(v2)

UpsertThenLookup ==
    /\ prev.op = "upsert" /\ prev.ok
    /\ last.op = "lookup" /\ last.ok
    /\ SameHandle(prev.arg, last.arg)

\* rows stored under the underscore-stripped or hyphen-substituted form of key
AltRows(rows, key) ==
    {r \in rows : /\ r.username # key
                  /\ r.username \in {replace(key, "_", <<>>), replace(key, "_", <<"-">>)}}

\* C2 as stated: upsert(v1, s) followed by lookup(v2), v1 and v2 spellings of
\* one handle and no store failure, returns a row with service s, whatever
\* other rows the store holds.
C2_RoundTrip ==
    UpsertThenLookup =>
        /\ last.result # None
        /\ \A r \in last.result : r.service = prev.service

\* C2 amended: the same, provided the store holds no other row under the
\* underscore-stripped or hyphen-substituted form of the normalized key; the
\* row returned is then the one stored under normalize(v1).
C2_RoundTripNoAlternate ==
    (UpsertThenLookup /\ AltRows(store, normalize_ref(last.arg)) = {}) =>
        last.result = {[username |-> normalize_ref(prev.arg), service |-> prev.service]}

C2_Witness ==
    /\ UpsertThenLookup
    /\ prev.arg # last.arg
    /\ AltRows(store, normalize_ref(last.arg)) = {}
    /\ Cardinality(store) >= 2
    /\ \E r \in last.result : r.service = prev.service

\* C3: the store holds at most one row per normalized username, and after an
\* upsert that was carried out the identity's single row carries that upsert's
\* service (so, of two successive upserts, the later one's).
C3_Overwrite ==
    /\ \A r1, r2 \in store : r1.username = r2.username => r1 = r2
    /\ \A r \in store : r.username = normalize_ref(r.username)
    /\ (last.op = "upsert" /\ last.ok) =>
          {r \in store : r.username = normalize_ref(last.arg)}
              = {[username |-> normalize_ref(last.arg), service |-> last.service]}

C3_Witness ==
    /\ prev.op = "upsert" /\ prev.ok
    /\ last.op = "upsert" /\ last.ok
    /\ SameHandle(prev.arg, last.arg)
    /\ prev.arg # last.arg
    /\ prev.service # last.service
    /\ Cardinality(store) >= 2

DeleteThenLookup ==
    /\ prev.op = "delete" /\ prev.ok
    /\ last.op = "lookup" /\ last.ok
    /\ prev.arg = last.arg

\* C4 as stated: delete(x) immediately followed by lookup(x) returns none, for
\* every identity x and every store content, when no store failure occurs.
C4_DeleteThenLookup ==
    DeleteThenLookup => last.result = None

\* C4 amended: delete(x) immediately followed by lookup(x) never returns a row
\* stored under normalize(x), and returns none unless the store holds a row
\* under the underscore-stripped or hyphen-substituted form of normalize(x).
C4_DeleteThenLookupNoAlternate ==
    DeleteThenLookup =>
        /\ \A r \in last.result : r.username # normalize_ref(last.arg)
        /\ AltRows(store, normalize_ref(last.arg)) = {} => last.result = None

C4_Witness ==
    /\ DeleteThenLookup
    /\ prev.result # None
    /\ store # {}
    /\ last.result = None

\* -------------------------------------------------------- dispatcher (Spec)
NotAuthorized(id) == [to |-> id, kind |-> "not_authorized", name |-> <<>>, service |-> <<>>]

\* C1: an Add or Remove command from an actor who is not the owner never
\* changes the stored rows, starts no delete, and is answered with the fixed
\* 'not authorized' reply, whatever its arguments (any argument count).
C1_NonOwnerRejected ==
    [][(/\ update' # update
        /\ update'.cmd \in {"add", "remove"}
        /\ update'.from_user # OWNER_ID)
       => /\ store' = store
          /\ worker' = worker
          /\ sent' = Append(sent, NotAuthorized(update'.id))]_vars

C1_Witness ==
    /\ store # {}
    /\ update.cmd \in {"add", "remove"} /\ update.from_user # OWNER_ID
    /\ \E i \in DOMAIN sent : sent[i].kind = "not_authorized"
    /\ \E i \in DOMAIN sent : sent[i].kind = "added"

\* C5 as stated: when Remove by the owner finds the identity, the row that the
\* lookup matched is gone from the store once the removal is confirmed (taken
\* here for deletes that did not fail).
C5_RemovedRowGone ==
    [][\A w \in Workers :
          (worker[w].pc = "delete" /\ remove_verified_delete(w, TRUE))
          => \A r \in worker[w].user_data :
                 \A r2 \in store' : r2.username # r.username]_vars

\* C6: no reply is sent for a command during whose dispatch a store operation
\* failed (no confirmation of a write that did not happen, no 'not verified'
\* for a read that failed).
C6_NoReplyOnStoreError ==
    \A i \in DOMAIN sent : \A e \in logged : e.id # sent[i].to

\* C9: every stored username is in normalized form, and a row enters the store
\* only by an owner's Add with two arguments, under the canonical form of the
\* identity argument (never an underscore-stripped or hyphenated variant).
C9_StoredNormalized ==
    /\ [](\A r \in store : /\ r.username = format_username(r.username)
                           /\ r.username = normalize_ref(r.username))
    /\ [][\A r \in store' \ store :
             \E w \in Workers, m \in Messages, ok \in BOOLEAN :
                 /\ add_verified(w, m, ok)
                 /\ m.from_user = OWNER_ID /\ Len(m.argv) = 2
                 /\ r = [username |-> normalize_ref(m.argv[1]), service |-> m.argv[2]]]_vars

C9_Witness ==
    /\ \E r \in store : r.username = <<"@", "a", "_", "a">>
    /\ \E r \in store : r.username = <<"@", "a", "a">>
    /\ \E i \in DOMAIN sent : sent[i].kind \in {"removed", "verified"}

InFlight(id) == {w \in Workers : worker[w].pc = "delete" /\ worker[w].msg.id = id}

Replies(id) == {i \in DOMAIN sent : sent[i].to = id}

====
